---------------------------- MODULE Spec2Model ----------------------------
(***************************************************************************)
(* A model of momcarebot: the value coercion and the plan extraction of    *)
(* app/plan_reader.py, the event log of app/logger.py and the job          *)
(* procedures of app/scheduler.py with the start-up of app/main.py.        *)
(*                                                                         *)
(* Text is a sequence of characters, each character a one-token string.    *)
(* The two currency symbols of plan_reader.py are stored in the source as  *)
(* the code points U+00C2 U+00A3 and U+00E2 U+201A U+00A6; they are the    *)
(* characters "Acirc" "pound" and "acirc" "sbquo" "brvbar" here.           *)
(***************************************************************************)
EXTENDS Integers, Sequences, FiniteSets, TLC

VARIABLES
    cell,       \* SpecCoerce: the cell value handed to the coercions
    coerced,    \* SpecCoerce: what _to_float and _to_ngn_float returned
    grid,       \* SpecReader: the rows of the worksheet, top to bottom
    plan,       \* SpecReader: the outcome of read_care_plan_from_excel
    logfile,    \* data/logs.csv: whether it exists, and its records
    proc,       \* Spec: the process, "init", "running" or "crashed"
    run,        \* Spec: the last procedure run, its events in order;
                \* SpecLogger: the arguments of the log_event calls so far
    runs        \* the number of job runs (Spec) or log_event calls (SpecLogger)

vars == <<cell, coerced, grid, plan, logfile, proc, run, runs>>

-----------------------------------------------------------------------------
(* Bounds *)

\* The number of pieces a text cell is put together from.
MaxParts == 3

-----------------------------------------------------------------------------
(* Python values *)

None == [k |-> "none", n |-> 0, s |-> <<>>]
Num(n) == [k |-> "num", n |-> n, s |-> <<>>]
Bool(b) == [k |-> "bool", n |-> IF b THEN 1 ELSE 0, s |-> <<>>]
Str(s) == [k |-> "str", n |-> 0, s |-> s]

\* The outcome of a call: a returned value, or an exception raised.
Raised(e) == [k |-> "raise", n |-> 0, s |-> <<e>>]

Min(a, b) == IF a < b THEN a ELSE b

RECURSIVE Concat(_)
Concat(ss) == IF ss = <<>> THEN <<>> ELSE Head(ss) \o Concat(Tail(ss))

\* Whether sequence p is a prefix of sequence s.
StartsWith(s, p) == Len(p) <= Len(s) /\ SubSeq(s, 1, Len(p)) = p

\* str.strip(): leading and trailing whitespace removed.
RECURSIVE LStrip(_)
LStrip(s) == IF s # <<>> /\ Head(s) = " " THEN LStrip(Tail(s)) ELSE s

RECURSIVE RStrip(_)
RStrip(s) ==
    IF s # <<>> /\ s[Len(s)] = " " THEN RStrip(SubSeq(s, 1, Len(s) - 1)) ELSE s

Strip(s) == RStrip(LStrip(s))

\* str.replace(pat, ""): every non-overlapping occurrence of pat, found from
\* the left in one pass, is removed.
RECURSIVE Remove(_, _)
Remove(s, pat) ==
    IF s = <<>> THEN <<>>
    ELSE IF StartsWith(s, pat) THEN Remove(SubSeq(s, Len(pat) + 1, Len(s)), pat)
    ELSE <<Head(s)>> \o Remove(Tail(s), pat)

Digit == [c \in {"0", "1", "2", "3", "4", "5", "6", "7", "8", "9"} |->
            CASE c = "0" -> 0 [] c = "1" -> 1 [] c = "2" -> 2 [] c = "3" -> 3
              [] c = "4" -> 4 [] c = "5" -> 5 [] c = "6" -> 6 [] c = "7" -> 7
              [] c = "8" -> 8 [] c = "9" -> 9]

RECURSIVE DigitsValue(_, _)
DigitsValue(s, acc) ==
    IF s = <<>> THEN acc ELSE DigitsValue(Tail(s), 10 * acc + Digit[Head(s)])

\* float(s) for a text of the characters of Pieces: surrounding whitespace is
\* dropped, then an optional sign and one or more digits are a number; anything
\* else is a ValueError.
ParseFloat(s) ==
    LET t == Strip(s)
        neg == t # <<>> /\ Head(t) = "-"
        d == IF neg THEN Tail(t) ELSE t
    IN  IF d # <<>> /\ \A i \in 1..Len(d) : d[i] \in DOMAIN Digit
        THEN Num(IF neg THEN 0 - DigitsValue(d, 0) ELSE DigitsValue(d, 0))
        ELSE Raised("ValueError")

PoundMark == <<"Acirc", "pound">>
NairaMark == <<"acirc", "sbquo", "brvbar">>

\* A coercion without its except clause: the ValueError reaches the caller.
ExceptValueError_uncaught(r) == r

\* The try/except around float(s): a ValueError becomes None.
ExceptValueError(r) == IF r.k = "raise" THEN None ELSE r

\* for ch in [...]: s = s.replace(ch, "").strip()
RECURSIVE StripMarkers(_, _)
StripMarkers(s, marks) ==
    IF marks = <<>> THEN s
    ELSE StripMarkers(Strip(Remove(s, Head(marks))), Tail(marks))

_to_float(v) ==
    IF v.k = "none" THEN None
    ELSE IF v.k \in {"num", "bool"} THEN Num(v.n)
    ELSE LET s == StripMarkers(Remove(Strip(v.s), <<",">>),
                     <<PoundMark, <<"G", "B", "P">>, <<"N", "G", "N">>, NairaMark>>)
         IN  IF s = <<>> THEN None ELSE ExceptValueError(ParseFloat(s))

_to_ngn_float(v) ==
    IF v.k = "none" THEN None
    ELSE IF v.k \in {"num", "bool"} THEN Num(v.n)
    ELSE LET s == Strip(Remove(Remove(Remove(Strip(v.s), <<",">>), NairaMark),
                                <<"N", "G", "N">>))
         IN  IF s = <<>> THEN None ELSE ExceptValueError(ParseFloat(s))

-----------------------------------------------------------------------------
(* SpecCoerce: the two coercions on bounded cell values *)

\* What text cells are put together from: whitespace, the thousands
\* separator, a sign, digits, a letter, the currency codes and symbols.
Pieces ==
    { <<" ">>, <<",">>, <<"-">>, <<"1">>, <<"0">>, <<"x">>,
      <<"G", "B", "P">>, <<"N", "G", "N">>, PoundMark, <<"pound">>, NairaMark }

PieceSeqs == UNION { [1..n -> Pieces] : n \in 0..MaxParts }

CellTexts == { Concat(ps) : ps \in PieceSeqs }

CellNumbers == {0 - 5, 0, 50}

CellValues ==
    {None} \cup { Num(n) : n \in CellNumbers } \cup { Bool(b) : b \in BOOLEAN }
        \cup { Str(s) : s \in CellTexts }

Unset == [k |-> "unset", n |-> 0, s |-> <<>>]


-----------------------------------------------------------------------------
(* Worksheet cells as text *)

\* The letters and phrases of the model in their three casings. A phrase is a
\* run of letters and inner blanks that no operation of the program splits.
CaseForms ==
    { [mixed |-> "Weekly Income", lower |-> "weekly income", upper |-> "WEEKLY INCOME"],
      [mixed |-> "Monthly Income", lower |-> "monthly income", upper |-> "MONTHLY INCOME"],
      [mixed |-> "Monthly Support Breakdown", lower |-> "monthly support breakdown",
       upper |-> "MONTHLY SUPPORT BREAKDOWN"],
      [mixed |-> "Total Monthly Support", lower |-> "total monthly support",
       upper |-> "TOTAL MONTHLY SUPPORT"],
      [mixed |-> "Remaining For You", lower |-> "remaining for you",
       upper |-> "REMAINING FOR YOU"],
      [mixed |-> "Transport", lower |-> "transport", upper |-> "TRANSPORT"],
      [mixed |-> "Food", lower |-> "food", upper |-> "FOOD"],
      [mixed |-> "Emergency Fund", lower |-> "emergency fund", upper |-> "EMERGENCY FUND"],
      [mixed |-> "G", lower |-> "g", upper |-> "G"],
      [mixed |-> "B", lower |-> "b", upper |-> "B"],
      [mixed |-> "P", lower |-> "p", upper |-> "P"],
      [mixed |-> "N", lower |-> "n", upper |-> "N"],
      [mixed |-> "x", lower |-> "x", upper |-> "X"] }

FormsOf(c) == { f \in CaseForms : c \in {f.mixed, f.lower, f.upper} }

CasedChars == UNION { {f.mixed, f.lower, f.upper} : f \in CaseForms }

LowerTable == [c \in CasedChars |-> (CHOOSE f \in FormsOf(c) : TRUE).lower]
UpperTable == [c \in CasedChars |-> (CHOOSE f \in FormsOf(c) : TRUE).upper]

LowerChar(c) == IF c \in CasedChars THEN LowerTable[c] ELSE c
UpperChar(c) == IF c \in CasedChars THEN UpperTable[c] ELSE c

\* str.lower() and str.upper()
Lower(s) == [i \in 1..Len(s) |-> LowerChar(s[i])]
Upper(s) == [i \in 1..Len(s) |-> UpperChar(s[i])]

DigitChar == [d \in 0..9 |-> CHOOSE c \in DOMAIN Digit : Digit[c] = d]

RECURSIVE NatText(_)
NatText(n) == IF n < 10 THEN <<DigitChar[n]>> ELSE NatText(n \div 10) \o <<DigitChar[n % 10]>>

\* str(v) of a cell value that is not None
StrOf(v) ==
    CASE v.k = "str" -> v.s
      [] v.k = "num" -> IF v.n < 0 THEN <<"-">> \o NatText(0 - v.n) ELSE NatText(v.n)
      [] v.k = "bool" -> IF v.n = 1 THEN <<"True">> ELSE <<"False">>

\* Python truthiness of a cell value
Truthy(v) ==
    CASE v.k = "none" -> FALSE
      [] v.k = "str" -> v.s # <<>>
      [] OTHER -> v.n # 0

\* _to_float(v) or 0.0
OrZero(r) == IF r.k = "none" \/ r.n = 0 THEN 0 ELSE r.n

-----------------------------------------------------------------------------
(* Plan extraction *)

RECURSIVE SumGbp(_)
SumGbp(items) == IF items = <<>> THEN 0 ELSE Head(items).amount_gbp + SumGbp(Tail(items))

BudgetItem(cat, gbp, ngn, notes) ==
    [category |-> cat, amount_gbp |-> gbp, amount_ngn |-> ngn, notes |-> notes]

CarePlan(w, m, t, tn, items) ==
    [ok |-> TRUE, err |-> "", weekly_income_gbp |-> w, monthly_income_gbp |-> m,
     total_support_gbp |-> t, total_support_ngn |-> tn, items |-> items]

\* A call of read_care_plan_from_excel that raised.
ReadError(e) ==
    [ok |-> FALSE, err |-> e, weekly_income_gbp |-> 0, monthly_income_gbp |-> 0,
     total_support_gbp |-> 0, total_support_ngn |-> None, items |-> <<>>]

\* A find_row that compares the cell with the label as they are spelled.
RECURSIVE find_row_from_exact(_, _, _)
find_row_from_exact(g, label, r) ==
    IF r > Len(g) THEN 0
    ELSE IF g[r].a.k # "none" /\ StrOf(g[r].a) = label THEN r
    ELSE find_row_from_exact(g, label, r + 1)

\* find_row: the first row whose column-1 cell, as text, trimmed and
\* lower-cased, is the label trimmed and lower-cased; 0 stands for None.
RECURSIVE find_row_from(_, _, _)
find_row_from(g, label, r) ==
    IF r > Len(g) THEN 0
    ELSE IF g[r].a.k # "none" /\ Lower(Strip(StrOf(g[r].a))) = Lower(Strip(label)) THEN r
    ELSE find_row_from(g, label, r + 1)

find_row(g, label) == find_row_from(g, label, 1)

\* The labels that end the breakdown, as the source spells them.
TotalLabel == <<"TOTAL MONTHLY SUPPORT">>
RemainingLabel == <<"REMAINING FOR YOU">>

\* if total_support_gbp == 0.0 and items: total_support_gbp = sum(...)
DeriveTotal(total, items) ==
    IF total = 0 /\ items # <<>> THEN SumGbp(items) ELSE total

Breakdown(total, total_ngn, items) ==
    [total |-> DeriveTotal(total, items), total_ngn |-> total_ngn, items |-> items]

\* A scan that stops at the totals row only.
IsTerminal_totals_only(cat_str) == Upper(cat_str) = TotalLabel

\* cat_str.upper() in {"TOTAL MONTHLY SUPPORT", "REMAINING FOR YOU"}
IsTerminal(cat_str) == Upper(cat_str) \in {TotalLabel, RemainingLabel}

\* A scan without the check for a blank label.
IsBlankLabel_unchecked(cat_str) == FALSE

\* if not cat_str
IsBlankLabel(cat_str) == cat_str = <<>>

\* An item put in front of the list instead of at its end.
AddItem_in_front(items, item) == <<item>> \o items

\* items.append(BudgetItem(...))
AddItem(items, item) == Append(items, item)

\* The while loop over the rows below the header, from row r on.
RECURSIVE ScanRows(_, _, _)
ScanRows(g, r, items) ==
    IF r > Len(g) THEN Breakdown(0, None, items)
    ELSE IF g[r].a.k = "none" THEN ScanRows(g, r + 1, items)
    ELSE LET cat_str == Strip(StrOf(g[r].a))
             amount_gbp == _to_float(g[r].b)
         IN  IF IsBlankLabel(cat_str) THEN ScanRows(g, r + 1, items)
             ELSE IF IsTerminal(cat_str)
             THEN IF Upper(cat_str) = TotalLabel
                  THEN Breakdown(OrZero(_to_float(g[r].b)), _to_ngn_float(g[r].c), items)
                  ELSE Breakdown(0, None, items)
             ELSE IF amount_gbp.k = "none" THEN ScanRows(g, r + 1, items)
             ELSE ScanRows(g, r + 1,
                     AddItem(items,
                            BudgetItem(cat_str, amount_gbp.n, _to_ngn_float(g[r].c),
                                       IF Truthy(g[r].d) THEN Strip(StrOf(g[r].d))
                                       ELSE <<>>)))

\* The part of read_care_plan_from_excel that works on the opened worksheet.
ReadSheet(g) ==
    LET weekly_row == find_row(g, <<"Weekly Income">>)
        monthly_row == find_row(g, <<"Monthly Income">>)
        header_row == find_row(g, <<"MONTHLY SUPPORT BREAKDOWN">>)
    IN  IF weekly_row = 0 \/ monthly_row = 0 THEN ReadError("ValueError: income rows")
        ELSE IF header_row = 0 THEN ReadError("ValueError: header row")
        ELSE LET bd == ScanRows(g, header_row + 1, <<>>)
             IN  CarePlan(OrZero(_to_float(g[weekly_row].b)),
                          OrZero(_to_float(g[monthly_row].b)),
                          bd.total, bd.total_ngn, bd.items)

\* A workbook file: whether it exists, whether it has the sheet
\* 'Mom Monthly Support Plan', and the rows of that sheet.
Workbook(exists, sheet, rows) == [exists |-> exists, sheet |-> sheet, rows |-> rows]

read_care_plan_from_excel(book) ==
    IF ~book.exists THEN ReadError("FileNotFoundError: Excel file not found")
    ELSE IF ~book.sheet THEN ReadError("ValueError: Sheet not found")
    ELSE ReadSheet(book.rows)

-----------------------------------------------------------------------------
(* SpecReader: read_care_plan_from_excel on bounded worksheets *)

\* The number of rows of a worksheet.
MaxRows == 5

Row(a, b, c, d) == [a |-> a, b |-> b, c |-> c, d |-> d]

\* The rows a worksheet is put together from: the three anchors in casings and
\* paddings other than the source's, both sentinels (the totals row with a
\* total and with a zero), two item rows, a separator without an amount and a
\* row with an amount and a blank label.
RowSet ==
    { Row(Str(<<" ", "weekly income", " ">>), Num(100), None, None),
      Row(Str(<<"Monthly Income">>), Str(<<"pound", "4", "3", "3">>), None, None),
      Row(Str(<<"monthly support breakdown">>), None, None, None),
      Row(Str(<<"Total Monthly Support">>), Num(70),
          Str(<<"N", "G", "N", " ", "2", "8", ",", "0", "0", "0">>), None),
      Row(Str(<<"TOTAL MONTHLY SUPPORT", " ">>), Num(0), Num(7), None),
      Row(Str(<<"Remaining For You">>), Num(30), None, None),
      Row(Str(<<"Transport">>), Str(<<"G", "B", "P", " ", "5", "0">>),
          Str(<<"2", "0", ",", "0", "0", "0">>), Str(<<" ", "x">>)),
      Row(Str(<<" ", "Food">>), Num(0 - 5), Str(<<"x">>), None),
      Row(Str(<<"-", "-">>), None, None, None),
      Row(Str(<<" ">>), Num(9), None, None) }

NoPlan == ReadError("not read")

InitReader ==
    /\ \E n \in 0..MaxRows : grid \in [1..n -> RowSet]
    /\ plan = NoPlan
    /\ cell = None /\ coerced = Unset
    /\ logfile = <<>> /\ proc = "init" /\ run = <<>> /\ runs = 0

ReadPlan ==
    /\ plan = NoPlan
    /\ plan' = read_care_plan_from_excel(Workbook(TRUE, TRUE, grid))
    /\ UNCHANGED <<cell, coerced, grid, logfile, proc, run, runs>>

SpecReader == InitReader /\ [][ReadPlan]_vars

-----------------------------------------------------------------------------
(* SpecCoerce *)

InitCoerce ==
    /\ cell \in CellValues
    /\ coerced = Unset
    /\ grid = <<>> /\ plan = NoPlan
    /\ logfile = <<>> /\ proc = "init" /\ run = <<>> /\ runs = 0

Coerce ==
    /\ coerced = Unset
    /\ coerced' = [k |-> "done", gbp |-> _to_float(cell), ngn |-> _to_ngn_float(cell)]
    /\ UNCHANGED <<cell, grid, plan, logfile, proc, run, runs>>

SpecCoerce == InitCoerce /\ [][Coerce]_vars

-----------------------------------------------------------------------------
(* The worksheet, described row by row *)

\* Row r carries the label in column 1, whatever its casing and padding.
HasLabel(g, r, label) ==
    g[r].a.k # "none" /\ Lower(Strip(StrOf(g[r].a))) = Lower(label)

LabelPresent(g, label) == \E r \in 1..Len(g) : HasLabel(g, r, label)

SetMin(S) == CHOOSE x \in S : \A y \in S : x <= y

HeaderRowOf(g) ==
    SetMin({ r \in 1..Len(g) : HasLabel(g, r, <<"monthly support breakdown">>) })

\* The terminal sentinel rows below the header.
SentinelRows(g) ==
    { r \in (HeaderRowOf(g) + 1)..Len(g) :
        HasLabel(g, r, TotalLabel) \/ HasLabel(g, r, RemainingLabel) }

\* The row the breakdown ends at: the first sentinel, or one past the last row.
StopRow(g) == IF SentinelRows(g) = {} THEN Len(g) + 1 ELSE SetMin(SentinelRows(g))

TotalsReached(g) == StopRow(g) <= Len(g) /\ HasLabel(g, StopRow(g), TotalLabel)

\* The rows the items come from: below the header, above the stop row, with a
\* label that is not blank and a column 2 that coerces to a number.
ItemRows(g) ==
    { r \in (HeaderRowOf(g) + 1)..(StopRow(g) - 1) :
        /\ g[r].a.k # "none"
        /\ Strip(StrOf(g[r].a)) # <<>>
        /\ _to_float(g[r].b).k = "num" }

PlanRead == plan # NoPlan

-----------------------------------------------------------------------------
(* Claims on the plan extraction, under SpecReader *)

\* C1: on success, total_support_gbp is the sum of the items' amounts when no
\* 'TOTAL MONTHLY SUPPORT' row is reached by the scan, and the coerced column-2
\* value of that row when one is reached, whatever the items are.
C1_TotalVerbatimOrSum ==
    (PlanRead /\ plan.ok) =>
        IF TotalsReached(grid)
        THEN plan.total_support_gbp = OrZero(_to_float(grid[StopRow(grid)].b))
        ELSE plan.total_support_gbp = SumGbp(plan.items)

\* C2: the extraction fails exactly when one of the three anchor rows is
\* absent, whatever else the worksheet holds.
C2_FailsIffAnchorAbsent ==
    PlanRead =>
        (~plan.ok <=>
            \/ ~LabelPresent(grid, <<"Weekly Income">>)
            \/ ~LabelPresent(grid, <<"Monthly Income">>)
            \/ ~LabelPresent(grid, <<"MONTHLY SUPPORT BREAKDOWN">>))

\* A worksheet with an unparseable amount, a skipped row and no sentinel is read.
C2_Witness ==
    /\ PlanRead /\ plan.ok
    /\ SentinelRows(grid) = {}
    /\ plan.items = <<>>
    /\ \E r \in 1..Len(grid) : grid[r].b.k = "str" /\ _to_float(grid[r].b) = None
    /\ \E r \in (HeaderRowOf(grid) + 1)..Len(grid) : Strip(StrOf(grid[r].a)) = <<>>

\* C3: the items are the item rows of the worksheet, one item per row, in the
\* order of the rows.
C3_ItemsAreItemRows ==
    (PlanRead /\ plan.ok) =>
        LET rows == ItemRows(grid)
        IN  /\ Len(plan.items) = Cardinality(rows)
            /\ \A r \in rows :
                  LET k == Cardinality({ q \in rows : q <= r })
                  IN  /\ plan.items[k].category = Strip(StrOf(grid[r].a))
                      /\ plan.items[k].amount_gbp = _to_float(grid[r].b).n
                      /\ plan.items[k].amount_ngn = _to_ngn_float(grid[r].c)

\* Two items are returned around a row that is skipped for its amount.
C3_Witness ==
    /\ PlanRead /\ plan.ok
    /\ Len(plan.items) = 2
    /\ plan.items[1] # plan.items[2]
    /\ \E r \in ItemRows(grid) :
          /\ r + 2 \in ItemRows(grid)
          /\ grid[r + 1].a.k = "str" /\ Strip(grid[r + 1].a.s) # <<>>
          /\ _to_float(grid[r + 1].b) = None
          /\ ~(r + 1 \in SentinelRows(grid))

\* C4: the scan stops at the first terminal sentinel: the items and totals are
\* those of the worksheet cut off after that row, so no row below it
\* contributes; when the sentinel is 'REMAINING FOR YOU' the secondary total
\* stays absent and the total is derived from the items.
C4_StopsAtFirstSentinel ==
    (PlanRead /\ plan.ok) =>
        LET stop == StopRow(grid)
            cut == ScanRows(SubSeq(grid, 1, stop), HeaderRowOf(grid) + 1, <<>>)
        IN  stop <= Len(grid) =>
                /\ plan.items = cut.items
                /\ plan.total_support_gbp = cut.total
                /\ plan.total_support_ngn = cut.total_ngn
                /\ HasLabel(grid, stop, RemainingLabel) =>
                      /\ plan.total_support_ngn = None
                      /\ plan.total_support_gbp = SumGbp(plan.items)

\* 'REMAINING FOR YOU' comes first; below it lie a totals row with both totals
\* and a row that has a label and an amount.
C4_Witness ==
    /\ PlanRead /\ plan.ok
    /\ StopRow(grid) + 2 <= Len(grid)
    /\ HasLabel(grid, StopRow(grid), RemainingLabel)
    /\ \E r \in (StopRow(grid) + 1)..Len(grid) :
          /\ HasLabel(grid, r, TotalLabel)
          /\ _to_float(grid[r].b).k = "num" /\ _to_float(grid[r].b).n # 0
          /\ _to_ngn_float(grid[r].c).k = "num"
    /\ \E r \in (StopRow(grid) + 1)..Len(grid) :
          /\ ~HasLabel(grid, r, TotalLabel) /\ ~HasLabel(grid, r, RemainingLabel)
          /\ Strip(StrOf(grid[r].a)) # <<>>
          /\ _to_float(grid[r].b).k = "num"
    /\ plan.total_support_gbp = 0

\* C5, as claimed: every plan returned has non-negative incomes, and items with
\* a non-empty category and a non-negative amount.
C5_DataModelConstraints ==
    (PlanRead /\ plan.ok) =>
        /\ plan.weekly_income_gbp >= 0
        /\ plan.monthly_income_gbp >= 0
        /\ \A k \in 1..Len(plan.items) :
              plan.items[k].category # <<>> /\ plan.items[k].amount_gbp >= 0

\* No column-2 cell of the worksheet coerces to a negative number.
NoNegativeAmounts(g) ==
    \A r \in 1..Len(g) : _to_float(g[r].b).k = "num" => _to_float(g[r].b).n >= 0

\* C5, amended: every item has a non-empty category; the incomes and the
\* amounts are the coerced cells with their sign, so they are non-negative
\* when no column-2 cell of the worksheet coerces to a negative number.
C5_SignPassedThrough ==
    (PlanRead /\ plan.ok) =>
        /\ \A k \in 1..Len(plan.items) : plan.items[k].category # <<>>
        /\ NoNegativeAmounts(grid) =>
              /\ plan.weekly_income_gbp >= 0
              /\ plan.monthly_income_gbp >= 0
              /\ \A k \in 1..Len(plan.items) : plan.items[k].amount_gbp >= 0

\* A worksheet without negative amounts is read into a plan with an item, and
\* a row whose label is blank but whose amount is a number was passed over.
C5_Witness ==
    /\ PlanRead /\ plan.ok
    /\ NoNegativeAmounts(grid)
    /\ Len(plan.items) = 1
    /\ plan.weekly_income_gbp > 0
    /\ \E r \in (HeaderRowOf(grid) + 1)..(StopRow(grid) - 1) :
          /\ grid[r].a.k = "str" /\ Strip(grid[r].a.s) = <<>>
          /\ _to_float(grid[r].b).k = "num"

-----------------------------------------------------------------------------
(* Claims on the value coercion, under SpecCoerce *)

\* Texts made of whitespace, thousands separators and currency markers only.
MarkerPieces == { <<" ">>, <<",">>, <<"G", "B", "P">>, <<"N", "G", "N">>, PoundMark, NairaMark }

MarkerTexts == { Concat(ps) : ps \in UNION { [1..n -> MarkerPieces] : n \in 0..MaxParts } }

\* A text that reads as a number: an optional sign, then digits and nothing else.
IsNumberText(s) ==
    \E sign \in {<<>>, <<"-">>} :
        /\ StartsWith(s, sign)
        /\ Len(s) > Len(sign)
        /\ \A i \in (Len(sign) + 1)..Len(s) : s[i] \in {"0", "1", "2", "3", "4", "5", "6", "7", "8", "9"}

\* The text of a cell without separators and without the markers the
\* primary-currency (resp. secondary-currency) coercion knows.
GbpStripped(s) ==
    StripMarkers(Remove(Strip(s), <<",">>),
                 <<PoundMark, <<"G", "B", "P">>, <<"N", "G", "N">>, NairaMark>>)
NgnStripped(s) ==
    Strip(Remove(Remove(Remove(Strip(s), <<",">>), NairaMark), <<"N", "G", "N">>))

\* C8: neither coercion raises, on any cell value; a cell that is null, empty,
\* whitespace, made of markers and separators only, or not a number once the
\* markers are stripped coerces to None; a number is returned unchanged.
C8_AbsentNeverRaises ==
    coerced.k = "done" =>
        /\ coerced.gbp.k # "raise" /\ coerced.ngn.k # "raise"
        /\ cell.k = "none" => coerced.gbp = None /\ coerced.ngn = None
        /\ (cell.k = "str" /\ cell.s \in MarkerTexts) =>
              coerced.gbp = None /\ coerced.ngn = None
        /\ (cell.k = "str" /\ ~IsNumberText(GbpStripped(cell.s))) => coerced.gbp = None
        /\ (cell.k = "str" /\ ~IsNumberText(NgnStripped(cell.s))) => coerced.ngn = None
        /\ cell.k = "num" => coerced.gbp = Num(cell.n) /\ coerced.ngn = Num(cell.n)

\* A text that is a number for one coercion and, the code GBP left in it, not
\* a number for the other.
C8_Witness ==
    /\ coerced.k = "done"
    /\ cell = Str(<<"G", "B", "P", "1", "0">>)
    /\ coerced.gbp = Num(10)
    /\ coerced.ngn = None

-----------------------------------------------------------------------------
(* The event log *)

\* message[:400], extra[:400]
FieldCap == 400

LogFields == {"timestamp_uk", "job", "status", "message", "extra"}

HeaderRecord == [f \in LogFields |-> <<f>>]

\* datetime.now().strftime("%Y-%m-%d %H:%M:%S"): one text of a fixed length.
Timestamp == <<"YYYY-mm-dd HH:MM:SS">>

\* s[:n]
Slice(s, n) == SubSeq(s, 1, Min(Len(s), n))

NoLogFile == [exists |-> FALSE, records |-> <<>>]

LogRecord(job, status, message, extra) ==
    [timestamp_uk |-> Timestamp, job |-> job, status |-> status,
     message |-> Slice(message, FieldCap), extra |-> Slice(extra, FieldCap)]

\* A log_event that writes the header on every call.
log_event_header_always(f, job, status, message, extra) ==
    [exists |-> TRUE,
     records |-> f.records \o <<HeaderRecord, LogRecord(job, status, message, extra)>>]

\* log_event: the file is opened for appending, which creates it; the header
\* is written when the file did not exist; then the row is written.
log_event(f, job, status, message, extra) ==
    [exists |-> TRUE,
     records |-> f.records \o (IF f.exists THEN <<>> ELSE <<HeaderRecord>>)
                           \o <<LogRecord(job, status, message, extra)>>]

-----------------------------------------------------------------------------
(* SpecLogger: log_event called with bounded arguments *)

\* The number of log_event calls.
MaxCalls == 2

\* A text of n characters; the characters beyond the cap differ from those
\* before it.
Fill(n) == [i \in 1..n |-> IF i <= FieldCap THEN "a" ELSE "b"]

ArgJobs == { <<"monthly_support">>, Fill(FieldCap + 1) }
ArgStatuses == { <<"STARTED">>, <<"ERROR">> }
ArgMessages == { <<>>, Fill(FieldCap), Fill(FieldCap + 1) }
ArgExtras == { <<>>, Fill(FieldCap + 2) }

InitLogger ==
    /\ logfile = NoLogFile
    /\ run = <<>>
    /\ runs = 0
    /\ cell = None /\ coerced = Unset /\ grid = <<>> /\ plan = NoPlan /\ proc = "init"

\* One call of log_event; run keeps the arguments of the calls so far.
LogEventCall ==
    /\ runs < MaxCalls
    /\ \E job \in ArgJobs, status \in ArgStatuses, message \in ArgMessages,
          extra \in ArgExtras :
          /\ logfile' = log_event(logfile, job, status, message, extra)
          /\ run' = Append(run, [job |-> job, status |-> status,
                                 message |-> message, extra |-> extra])
    /\ runs' = runs + 1
    /\ UNCHANGED <<cell, coerced, grid, plan, proc>>

SpecLogger == InitLogger /\ [][LogEventCall]_vars

\* The log is one header, then one record per call, in the order of the calls,
\* each with the job and the status of its call; no file before the first call.
LogFollowsCalls ==
    IF run = <<>> THEN logfile = NoLogFile
    ELSE /\ logfile.exists
         /\ Len(logfile.records) = Len(run) + 1
         /\ logfile.records[1] = HeaderRecord
         /\ \A i \in 1..Len(run) :
               LET rec == logfile.records[i + 1]
               IN  /\ rec # HeaderRecord
                   /\ rec.job = run[i].job
                   /\ rec.status = run[i].status
                   /\ StartsWith(run[i].message, rec.message)
                   /\ StartsWith(run[i].extra, rec.extra)

\* C7, as claimed: the log follows the calls, and every stored field of every
\* record is capped in length.
C7_EveryFieldCapped ==
    /\ LogFollowsCalls
    /\ \A i \in 1..Len(logfile.records) :
          \A f \in LogFields : Len(logfile.records[i][f]) <= FieldCap

\* C7, amended: the log follows the calls; message and extra are stored cut to
\* their first 400 characters, job and status are stored as they were passed,
\* whatever their length.
C7_MessageAndExtraCapped ==
    /\ LogFollowsCalls
    /\ \A i \in 1..Len(run) :
          LET rec == logfile.records[i + 1]
          IN  /\ rec.message = Slice(run[i].message, FieldCap)
              /\ rec.extra = Slice(run[i].extra, FieldCap)
              /\ Len(rec.message) <= FieldCap /\ Len(rec.extra) <= FieldCap
              /\ rec.job = run[i].job /\ rec.status = run[i].status

\* Two calls; the second carries a message and an extra beyond the cap and a
\* job name beyond it.
C7_Witness ==
    /\ Len(run) = 2
    /\ Len(logfile.records) = 3
    /\ Len(run[2].message) > FieldCap /\ Len(logfile.records[3].message) = FieldCap
    /\ Len(run[2].extra) > FieldCap /\ Len(logfile.records[3].extra) = FieldCap
    /\ Len(logfile.records[3].job) > FieldCap
    /\ logfile.records[2].message = <<>>

-----------------------------------------------------------------------------
(* The job procedures *)

\* What a procedure does that the outside sees, in order: a step called and
\* whether it succeeded, a record written to the log, an error notification
\* attempted and whether it got through.
\* A call event also carries the message handed to the step, where the step is
\* a reminder send: its wording, and the amounts written into it.
Message(text, gbp, ngn) == [text |-> text, gbp |-> gbp, ngn |-> ngn]
NoArgs == Message("", 0, None)

CallEvent(step, ok) ==
    [t |-> "call", job |-> "", status |-> "", step |-> step, ok |-> ok, arg |-> NoArgs]
LogEvent(job, status, message) ==
    [t |-> "log", job |-> job, status |-> status, step |-> message, ok |-> TRUE,
     arg |-> NoArgs]
NotifyEvent(job, step, ok) ==
    [t |-> "notify", job |-> job, status |-> "", step |-> step, ok |-> ok, arg |-> NoArgs]

\* The state a procedure works on: the log file and the events so far.
Log(st, job, status, message, extra) ==
    [file |-> log_event(st.file, <<job>>, <<status>>, <<message>>, extra),
     ev |-> Append(st.ev, LogEvent(job, status, message))]

\* _safe(job, step, fn, *args): fn is called with args; ok says whether it
\* returned, err is the text of the exception it raised otherwise, notified
\* whether the error notification got through. The caller has fn's result
\* when ok and None otherwise.
_safe(st, job, step, args, ok, err, notified) ==
    LET called == [st EXCEPT !.ev = Append(st.ev, [CallEvent(step, ok) EXCEPT !.arg = args])]
    IN  IF ok THEN Log(called, job, "SENT", step, <<>>)
        ELSE LET logged == Log(called, job, "ERROR", step, <<err>>)
             IN  [logged EXCEPT !.ev = Append(logged.ev, NotifyEvent(job, step, notified))]

\* The outcome of a transport or rendering call that failed.
TransportError == "RuntimeError: transport"

\* A monthly job that sends the document whatever build_mom_care_pdf returned.
SendsPdf_always(built) == TRUE

\* if built:
SendsPdf(built) == built

\* monthly_support_job: o says which of the steps after the read succeed when
\* called, n which of the error notifications get through.
monthly_support_job(st, book, o, n) ==
    LET job == "monthly_support"
        s0 == Log(st, job, "STARTED", "Monthly job triggered", <<>>)
        p == read_care_plan_from_excel(book)
        s1 == _safe(s0, job, "read_excel_plan", NoArgs, p.ok, p.err, n["read_excel_plan"])
        s2 == _safe(s1, job, "build_pdf", NoArgs, o["build_pdf"], TransportError,
                    n["build_pdf"])
        s3 == IF SendsPdf(o["build_pdf"])
              THEN _safe(s2, job, "send_pdf_to_telegram", NoArgs, o["send_pdf_to_telegram"],
                         TransportError, n["send_pdf_to_telegram"])
              ELSE s2
        s4 == _safe(s3, job, "send_text_breakdown", NoArgs, o["send_text_breakdown"],
                    TransportError, n["send_text_breakdown"])
    IN  IF ~p.ok THEN s1
        ELSE Log(s4, job, "DONE", "Monthly job completed", <<>>)

weekly_call_job(st, o, n) ==
    LET job == "weekly_call"
        s0 == Log(st, job, "STARTED", "Weekly call job triggered", <<>>)
        s1 == _safe(s0, job, "send_call_reminder", NoArgs, o["send_call_reminder"],
                    TransportError, n["send_call_reminder"])
    IN  Log(s1, job, "DONE", "Weekly call job completed", <<>>)

\* The lower-case phrases that contain the word 'emergency'.
EmergencyPhrases == {"emergency fund"}

\* A test that looks for the word as it is spelled in lower case.
IsEmergency_case_sensitive(item) ==
    \E i \in 1..Len(item.category) : item.category[i] \in EmergencyPhrases

\* "emergency" in i.category.lower()
IsEmergency(item) ==
    \E i \in 1..Len(item.category) : Lower(item.category)[i] \in EmergencyPhrases

\* next((i for i in plan.items if ...), None): the first such item, None if none.
RECURSIVE FirstEmergency(_)
FirstEmergency(items) ==
    IF items = <<>> THEN <<>>
    ELSE IF IsEmergency(Head(items)) THEN <<Head(items)>>
    ELSE FirstEmergency(Tail(items))

\* The two reminders: the generic one has no amount in it, the other one the
\* amounts of the item it is about.
GenericReminder == Message("Reminder: put emergency savings aside this week.", 0, None)
AmountReminder(item) ==
    Message("Emergency savings reminder", item.amount_gbp, item.amount_ngn)

emergency_savings_job(st, book, o, n) ==
    LET job == "emergency_savings"
        s0 == Log(st, job, "STARTED", "Emergency savings job triggered", <<>>)
        p == read_care_plan_from_excel(book)
        s1 == _safe(s0, job, "read_excel_plan", NoArgs, p.ok, p.err, n["read_excel_plan"])
        emergency == FirstEmergency(p.items)
        generic == _safe(s1, job, "send_generic_emergency_reminder", GenericReminder,
                         o["send_generic_emergency_reminder"], TransportError,
                         n["send_generic_emergency_reminder"])
        amount == _safe(s1, job, "send_emergency_amount_reminder",
                        AmountReminder(emergency[1]),
                        o["send_emergency_amount_reminder"], TransportError,
                        n["send_emergency_amount_reminder"])
    IN  IF ~p.ok THEN Log(generic, job, "DONE", "Emergency savings job completed", <<>>)
        ELSE IF emergency # <<>>
        THEN Log(amount, job, "DONE", "Emergency savings job completed", <<>>)
        ELSE Log(generic, job, "DONE", "Emergency savings job completed", <<>>)

\* start_scheduler, up to sched.start(): the jobs are registered, the start is
\* logged and the start-up message is sent.
start_scheduler(st, o, n) ==
    LET s0 == Log(st, "system", "STARTED", "Scheduler started", <<>>)
    IN  _safe(s0, "system", "startup_message", NoArgs, o["startup_message"], TransportError,
              n["startup_message"])

\* main: send_telegram is called on its own, then start_scheduler. A failure
\* of that first call leaves main as an exception.
main(st, o, n) ==
    LET s0 == [st EXCEPT !.ev = Append(st.ev, CallEvent("live_message", o["live_message"]))]
    IN  IF ~o["live_message"] THEN [st |-> s0, outcome |-> "raised"]
        ELSE [st |-> start_scheduler(s0, o, n), outcome |-> "returned"]

-----------------------------------------------------------------------------
(* Spec: the process, from start-up through the runs of its jobs *)

\* The number of job runs.
MaxRuns == 2

Steps ==
    { "live_message", "startup_message", "read_excel_plan", "build_pdf",
      "send_pdf_to_telegram", "send_text_breakdown", "send_call_reminder",
      "send_generic_emergency_reminder", "send_emergency_amount_reminder" }

JobNames == {"monthly_support", "weekly_call", "emergency_savings"}

\* Which steps succeed (resp. which error notifications get through): the
\* steps in S vary, the others are not called by the procedure.
Outcomes(S) == { [s \in Steps |-> s \in T] : T \in SUBSET S }

IncomeRows ==
    << Row(Str(<<"Weekly Income">>), Num(100), None, None),
       Row(Str(<<"Monthly Income">>), Num(433), None, None),
       Row(Str(<<"MONTHLY SUPPORT BREAKDOWN">>), None, None, None) >>

\* The workbooks the jobs find: none, one without the anchor rows, a plan
\* without an emergency line, a plan with two of them in different casings
\* and with different amounts below another item, and a plan whose only
\* emergency line is below the totals row.
SampleBooks ==
    { Workbook(FALSE, FALSE, <<>>),
      Workbook(TRUE, TRUE, <<Row(Str(<<"Transport">>), Num(50), None, None)>>),
      Workbook(TRUE, TRUE,
               IncomeRows \o <<Row(Str(<<"Transport">>), Num(50), None, None)>>),
      Workbook(TRUE, TRUE,
               IncomeRows \o <<Row(Str(<<"Transport">>), Num(50), None, None),
                               Row(Str(<<"EMERGENCY FUND">>), Num(30),
                                   Str(<<"1", "2", ",", "0", "0", "0">>), None),
                               Row(Str(<<"emergency fund">>), Num(45), None, None),
                               Row(Str(<<"TOTAL MONTHLY SUPPORT">>), Num(125), None, None)>>),
      Workbook(TRUE, TRUE,
               IncomeRows \o <<Row(Str(<<"Food">>), Num(20), None, None),
                               Row(Str(<<"TOTAL MONTHLY SUPPORT">>), Num(20), None, None),
                               Row(Str(<<"Emergency Fund">>), Num(30), None, None)>>) }

NoRun == [job |-> "", ev |-> <<>>, outcome |-> ""]

Init ==
    /\ proc = "init"
    /\ logfile = NoLogFile
    /\ run = NoRun
    /\ runs = 0
    /\ cell = None /\ coerced = Unset /\ grid = <<>> /\ plan = NoPlan

Fresh == [file |-> logfile, ev |-> <<>>]

\* The steps of S that fail under o: the error notifications that are attempted.
Failing(S, o) == { s \in S : ~o[s] }

ReadStep(book) ==
    IF read_care_plan_from_excel(book).ok THEN {} ELSE {"read_excel_plan"}

Main ==
    /\ proc = "init"
    /\ \E o \in Outcomes({"live_message", "startup_message"}) :
       \E n \in Outcomes(Failing({"startup_message"}, o)) :
          LET r == main(Fresh, o, n)
          IN  /\ logfile' = r.st.file
              /\ run' = [job |-> "system", ev |-> r.st.ev, outcome |-> r.outcome]
              /\ proc' = IF r.outcome = "raised" THEN "crashed" ELSE "running"
    /\ UNCHANGED <<cell, coerced, grid, plan, runs>>

\* A job ran: p is what its read of the workbook gave, NoPlan if the job
\* reads none.
JobRan(job, st, p) ==
    /\ logfile' = st.file
    /\ run' = [job |-> job, ev |-> st.ev, outcome |-> "returned"]
    /\ runs' = runs + 1
    /\ plan' = p
    /\ UNCHANGED <<cell, coerced, grid, proc>>

MonthlySupportJob ==
    /\ proc = "running" /\ runs < MaxRuns
    /\ \E book \in SampleBooks :
       \E o \in Outcomes(IF ReadStep(book) = {}
                         THEN {"build_pdf", "send_pdf_to_telegram", "send_text_breakdown"}
                         ELSE {}) :
       \E n \in Outcomes(ReadStep(book) \cup
                         Failing({"build_pdf", "send_pdf_to_telegram",
                                  "send_text_breakdown"}, o)) :
          JobRan("monthly_support", monthly_support_job(Fresh, book, o, n),
                 read_care_plan_from_excel(book))

WeeklyCallJob ==
    /\ proc = "running" /\ runs < MaxRuns
    /\ \E o \in Outcomes({"send_call_reminder"}) :
       \E n \in Outcomes(Failing({"send_call_reminder"}, o)) :
          JobRan("weekly_call", weekly_call_job(Fresh, o, n), NoPlan)

EmergencySavingsJob ==
    /\ proc = "running" /\ runs < MaxRuns
    /\ \E book \in SampleBooks :
       \E o \in Outcomes({"send_generic_emergency_reminder",
                          "send_emergency_amount_reminder"}) :
       \E n \in Outcomes(ReadStep(book) \cup
                         Failing({"send_generic_emergency_reminder",
                                  "send_emergency_amount_reminder"}, o)) :
          JobRan("emergency_savings", emergency_savings_job(Fresh, book, o, n),
                 read_care_plan_from_excel(book))

Next == Main \/ MonthlySupportJob \/ WeeklyCallJob \/ EmergencySavingsJob

Spec == Init /\ [][Next]_vars

-----------------------------------------------------------------------------
(* Claims on the job procedures, under Spec *)

Events(kind) == { i \in 1..Len(run.ev) : run.ev[i].t = kind }

FailedCalls == { i \in Events("call") : ~run.ev[i].ok }

ErrorLogs == { i \in Events("log") : run.ev[i].status = "ERROR" }

\* The place of the call of a step among the events of the run, 0 if the step
\* was not called.
CallOf(step) ==
    IF \E i \in Events("call") : run.ev[i].step = step
    THEN CHOOSE i \in Events("call") : run.ev[i].step = step
    ELSE 0

Called(step) == CallOf(step) # 0

Succeeded(step) == Called(step) /\ run.ev[CallOf(step)].ok

\* C6: in every procedure run, start-up included, each failing step is
\* followed by one ERROR record naming the job and the step and then by one
\* attempt to send the error notification; there are no other ERROR records or
\* notifications; the procedure returns, and the process does not go down.
C6_EveryFailureCaught ==
    /\ \A i \in FailedCalls :
          /\ i + 2 <= Len(run.ev)
          /\ run.ev[i + 1] = LogEvent(run.job, "ERROR", run.ev[i].step)
          /\ run.ev[i + 2].t = "notify" /\ run.ev[i + 2].step = run.ev[i].step
    /\ Cardinality(ErrorLogs) = Cardinality(FailedCalls)
    /\ Cardinality(Events("notify")) = Cardinality(FailedCalls)
    /\ run.outcome # "raised"
    /\ proc # "crashed"

\* C9: a job run that writes a STARTED record writes exactly one DONE record
\* for the same job, and that record is the last thing the run does.
C9_StartedThenDone ==
    (run.job \in JobNames /\ \E i \in Events("log") : run.ev[i].status = "STARTED") =>
        /\ Cardinality({ i \in Events("log") : run.ev[i].status = "DONE" }) = 1
        /\ run.ev[Len(run.ev)] = LogEvent(run.job, "DONE", run.ev[Len(run.ev)].step)

\* C10: the monthly job calls its steps in the order read, build, send
\* document, send text; it sends the document exactly when the read and the
\* build succeeded, and the text exactly when the read succeeded.
C10_MonthlyStepOrder ==
    run.job = "monthly_support" =>
        /\ \A i, j \in Events("call") : run.ev[i].step = run.ev[j].step => i = j
        /\ Called("read_excel_plan")
        /\ Called("build_pdf") <=> Succeeded("read_excel_plan")
        /\ Called("send_pdf_to_telegram") <=>
              (Succeeded("read_excel_plan") /\ Succeeded("build_pdf"))
        /\ Called("send_text_breakdown") <=> Succeeded("read_excel_plan")
        /\ Called("build_pdf") => CallOf("read_excel_plan") < CallOf("build_pdf")
        /\ Called("send_pdf_to_telegram") =>
              CallOf("build_pdf") < CallOf("send_pdf_to_telegram")
        /\ Called("send_text_breakdown") =>
              /\ CallOf("build_pdf") < CallOf("send_text_breakdown")
              /\ CallOf("send_pdf_to_telegram") < CallOf("send_text_breakdown")

\* The build failed and its error notification did not get through; the
\* document was not sent and the text was.
C10_Witness ==
    /\ run.job = "monthly_support"
    /\ Called("build_pdf") /\ ~Succeeded("build_pdf")
    /\ ~run.ev[CallOf("build_pdf") + 2].ok
    /\ ~Called("send_pdf_to_telegram")
    /\ Succeeded("send_text_breakdown")

ReminderSteps == {"send_generic_emergency_reminder", "send_emergency_amount_reminder"}

\* A category that has the word 'emergency' in it, in whichever casing.
ContainsEmergency(category) ==
    \E i \in 1..Len(category) : \E f \in CaseForms :
        f.lower \in EmergencyPhrases /\ category[i] \in {f.mixed, f.lower, f.upper}

\* The places of the emergency items among the items of the plan the run read.
EmergencyItems ==
    IF plan.ok
    THEN { k \in 1..Len(plan.items) : ContainsEmergency(plan.items[k].category) }
    ELSE {}

\* C11: every run of the emergency savings job calls exactly one of the two
\* reminder sends, once: the amount reminder if and only if the plan was read
\* and has an item whose category contains 'emergency' in any casing, and
\* then with the amounts of the first such item in row order; the generic
\* reminder otherwise, also when the read of the plan failed.
C11_OneReminderPerRun ==
    run.job = "emergency_savings" =>
        LET sends == { i \in Events("call") : run.ev[i].step \in ReminderSteps }
            found == Succeeded("read_excel_plan") /\ EmergencyItems # {}
        IN  /\ Called("read_excel_plan")
            /\ Succeeded("read_excel_plan") <=> plan.ok
            /\ Cardinality(sends) = 1
            /\ Called("send_emergency_amount_reminder") <=> found
            /\ Called("send_generic_emergency_reminder") <=> ~found
            /\ found =>
                  run.ev[CallOf("send_emergency_amount_reminder")].arg =
                      AmountReminder(plan.items[SetMin(EmergencyItems)])
            /\ ~found =>
                  run.ev[CallOf("send_generic_emergency_reminder")].arg = GenericReminder

\* The plan read has two emergency items with different amounts, the first of
\* them below another item and spelled in capitals; the amount reminder was
\* sent with the amounts of the first.
C11_Witness ==
    /\ run.job = "emergency_savings"
    /\ Cardinality(EmergencyItems) = 2
    /\ SetMin(EmergencyItems) > 1
    /\ \A j, k \in EmergencyItems :
          j # k => plan.items[j].amount_gbp # plan.items[k].amount_gbp
    /\ plan.items[SetMin(EmergencyItems)].category # Lower(plan.items[SetMin(EmergencyItems)].category)
    /\ Succeeded("send_emergency_amount_reminder")
    /\ run.ev[CallOf("send_emergency_amount_reminder")].arg.gbp =
          plan.items[SetMin(EmergencyItems)].amount_gbp

=============================================================================
